---- MODULE Spec2Model ----
(***************************************************************************)
(* Account pool and dispatch logic of the URL shortener backend            *)
(* (src/app.py): BitlyAPIManager._get_available_account and                *)
(* BitlyAPIManager.shorten_url, with the upstream provider and the         *)
(* calendar as the environment.                                            *)
(*                                                                         *)
(* Accounts are numbered 1..Len(accounts); the code's 0-based              *)
(* current_account_index c designates accounts[c + 1].  A username is the  *)
(* account's number and 0 stands for the empty string.  Dates are day      *)
(* numbers 1, 2, ...; 0 stands for last_reset = "".                        *)
(***************************************************************************)
EXTENDS Integers, Sequences, FiniteSets, TLC

\* ------------------------------------------------------------------ bounds
MaxAccounts == 2
MaxLimit == 2
MaxDay == 2

\* ------------------------------------------------------- program constants
max_retries == 3

\* ------------------------------------------------------------------- data
NoAccount == 0
NoDate == 0
Tokens == {"", "tok"}
URLs == {"https://example.com"}
Links == {"https://bit.ly/abc", "https://bit.ly/xyz"}

\* status 0: requests.post raised (timeout, connection error), no response
RaisedStatus == 0
NoStatus == -1
SuccessStatus == {200, 201}
RateLimited == 429
OtherStatus == {404, 500}

\* body of a 200/201 response that yields no link: a JSON document without
\* "link", or text that is not JSON
MalformedBodies == {"nolink", "badjson"}

Response(status, body) == [status |-> status, body |-> body]

NoResponse == Response(NoStatus, "")

Account(username, api_token, daily_limit, current_count, last_reset) ==
    [username |-> username, api_token |-> api_token, daily_limit |-> daily_limit,
     current_count |-> current_count, last_reset |-> last_reset]

URLResult(original_url, short_url, account_used, success, error_message) ==
    [original_url |-> original_url, short_url |-> short_url,
     account_used |-> account_used, success |-> success,
     error_message |-> error_message]

NoResult == URLResult("", "", NoAccount, FALSE, "none")

ApiError(status) ==
    CASE status = 404 -> "API Error: 404"
      [] status = 429 -> "API Error: 429"
      [] status = 500 -> "API Error: 500"
      [] OTHER -> "API Error"

VARIABLES
    accounts,               \* BitlyAPIManager.accounts
    current_account_index,  \* BitlyAPIManager.current_account_index
    today,                  \* datetime.now().strftime('%Y-%m-%d')
    pc,                     \* position of shorten_url: idle, call, done
    long_url,               \* argument of the running shorten_url
    attempt,                \* loop variable of shorten_url
    account,                \* local variable account of shorten_url
    result,                 \* the URLResult returned
    sel_count,              \* current_count of account when it was selected
    calls,                  \* upstream calls made by this shorten_url so far
    response,               \* the latest upstream response of this shorten_url
    all_500,                \* every upstream call of this shorten_url answered 500
    route,                  \* the route handler running: none, shorten, shorten_bulk
    urls,                   \* the URLs of the request, as received
    results,                \* the outcomes handed to the caller so far
    reply,                  \* the JSON reply of the route handler
    second                  \* locals of a second shorten_url running at the same time

vars == <<accounts, current_account_index, today, pc, long_url, attempt,
          account, result, sel_count, calls, response, all_500,
          route, urls, results, reply, second>>

\* State of the route handlers and of a second thread, which the dispatcher
\* on its own does not touch.
outer == <<route, urls, results, reply, second>>

NoReply == [status |-> 0]

NoSecond == [pc |-> "idle", attempt |-> 0, account |-> NoAccount, success |-> FALSE]

InitOuter ==
    /\ route = "none"
    /\ urls = <<>>
    /\ results = <<>>
    /\ reply = NoReply
    /\ second = NoSecond

\* --------------------------------------------------------------- the pool
\* Variants of the loop with one line changed.
\* the reset is applied at every examination, whatever last_reset is
RECURSIVE ScanAlwaysReset(_, _, _, _)
ScanAlwaysReset(accts, idx, k, day) ==
    IF k = 0
    THEN [accounts |-> accts, index |-> idx, account |-> NoAccount]
    ELSE LET i == idx + 1
             nidx == (idx + 1) % Len(accts)
             a2 == [accts[i] EXCEPT !.current_count = 0, !.last_reset = day]
             accts2 == [accts EXCEPT ![i] = a2]
         IN  IF a2.current_count < a2.daily_limit /\ a2.api_token # ""
             THEN [accounts |-> accts2, index |-> nidx, account |-> i]
             ELSE ScanAlwaysReset(accts2, nidx, k - 1, day)

\* current_count <= daily_limit in place of <
RECURSIVE ScanAtLimit(_, _, _, _)
ScanAtLimit(accts, idx, k, day) ==
    IF k = 0
    THEN [accounts |-> accts, index |-> idx, account |-> NoAccount]
    ELSE LET i == idx + 1
             nidx == (idx + 1) % Len(accts)
             a == accts[i]
             a2 == IF a.last_reset # day
                   THEN [a EXCEPT !.current_count = 0, !.last_reset = day]
                   ELSE a
             accts2 == [accts EXCEPT ![i] = a2]
         IN  IF a2.current_count <= a2.daily_limit /\ a2.api_token # ""
             THEN [accounts |-> accts2, index |-> nidx, account |-> i]
             ELSE ScanAtLimit(accts2, nidx, k - 1, day)

\* the reset is applied only to an account that is then returned
RECURSIVE ScanResetOnSelect(_, _, _, _)
ScanResetOnSelect(accts, idx, k, day) ==
    IF k = 0
    THEN [accounts |-> accts, index |-> idx, account |-> NoAccount]
    ELSE LET i == idx + 1
             nidx == (idx + 1) % Len(accts)
             a == accts[i]
             a2 == IF a.last_reset # day
                   THEN [a EXCEPT !.current_count = 0, !.last_reset = day]
                   ELSE a
             accts2 == [accts EXCEPT ![i] = a2]
         IN  IF a2.current_count < a2.daily_limit /\ a2.api_token # ""
             THEN [accounts |-> accts2, index |-> nidx, account |-> i]
             ELSE ScanResetOnSelect(accts, nidx, k - 1, day)

\* the cursor is advanced past skipped accounts only, not past the one returned
RECURSIVE ScanStay(_, _, _, _)
ScanStay(accts, idx, k, day) ==
    IF k = 0
    THEN [accounts |-> accts, index |-> idx, account |-> NoAccount]
    ELSE LET i == idx + 1
             nidx == (idx + 1) % Len(accts)
             a == accts[i]
             a2 == IF a.last_reset # day
                   THEN [a EXCEPT !.current_count = 0, !.last_reset = day]
                   ELSE a
             accts2 == [accts EXCEPT ![i] = a2]
         IN  IF a2.current_count < a2.daily_limit /\ a2.api_token # ""
             THEN [accounts |-> accts2, index |-> idx, account |-> i]
             ELSE ScanStay(accts2, nidx, k - 1, day)

\* the token is not tested
RECURSIVE ScanNoToken(_, _, _, _)
ScanNoToken(accts, idx, k, day) ==
    IF k = 0
    THEN [accounts |-> accts, index |-> idx, account |-> NoAccount]
    ELSE LET i == idx + 1
             nidx == (idx + 1) % Len(accts)
             a == accts[i]
             a2 == IF a.last_reset # day
                   THEN [a EXCEPT !.current_count = 0, !.last_reset = day]
                   ELSE a
             accts2 == [accts EXCEPT ![i] = a2]
         IN  IF a2.current_count < a2.daily_limit
             THEN [accounts |-> accts2, index |-> nidx, account |-> i]
             ELSE ScanNoToken(accts2, nidx, k - 1, day)

\* the limit is tested on the count as it was before the reset
RECURSIVE ScanTestFirst(_, _, _, _)
ScanTestFirst(accts, idx, k, day) ==
    IF k = 0
    THEN [accounts |-> accts, index |-> idx, account |-> NoAccount]
    ELSE LET i == idx + 1
             nidx == (idx + 1) % Len(accts)
             a == accts[i]
             a2 == IF a.last_reset # day
                   THEN [a EXCEPT !.current_count = 0, !.last_reset = day]
                   ELSE a
             accts2 == [accts EXCEPT ![i] = a2]
         IN  IF a.current_count < a.daily_limit /\ a.api_token # ""
             THEN [accounts |-> accts2, index |-> nidx, account |-> i]
             ELSE ScanTestFirst(accts2, nidx, k - 1, day)

\* the scan gives up at the first account it cannot return
ScanGiveUp(accts, idx, k, day) ==
    IF k = 0
    THEN [accounts |-> accts, index |-> idx, account |-> NoAccount]
    ELSE LET i == idx + 1
             nidx == (idx + 1) % Len(accts)
             a == accts[i]
             a2 == IF a.last_reset # day
                   THEN [a EXCEPT !.current_count = 0, !.last_reset = day]
                   ELSE a
             accts2 == [accts EXCEPT ![i] = a2]
         IN  IF a2.current_count < a2.daily_limit /\ a2.api_token # ""
             THEN [accounts |-> accts2, index |-> nidx, account |-> i]
             ELSE [accounts |-> accts2, index |-> nidx, account |-> NoAccount]

\* One examination of the for loop of _get_available_account, k left.
RECURSIVE Scan(_, _, _, _)
Scan(accts, idx, k, day) ==
    IF k = 0
    THEN [accounts |-> accts, index |-> idx, account |-> NoAccount]
    ELSE LET i == idx + 1
             nidx == (idx + 1) % Len(accts)
             a == accts[i]
             a2 == IF a.last_reset # day
                   THEN [a EXCEPT !.current_count = 0, !.last_reset = day]
                   ELSE a
             accts2 == [accts EXCEPT ![i] = a2]
         IN  IF a2.current_count < a2.daily_limit /\ a2.api_token # ""
             THEN [accounts |-> accts2, index |-> nidx, account |-> i]
             ELSE Scan(accts2, nidx, k - 1, day)

\* Variants of the selection with one line changed.
\* the cursor is read but not stored back
get_available_account_restart(accts, idx, day) ==
    IF Len(accts) = 0
    THEN [accounts |-> accts, index |-> idx, account |-> NoAccount]
    ELSE [Scan(accts, idx, Len(accts), day) EXCEPT !.index = idx]

\* the cursor is advanced before the empty pool is noticed
get_available_account_advance(accts, idx, day) ==
    IF Len(accts) = 0
    THEN [accounts |-> accts, index |-> idx + 1, account |-> NoAccount]
    ELSE Scan(accts, idx, Len(accts), day)

\* the loop examines one account less than the pool has
get_available_account_short(accts, idx, day) ==
    IF Len(accts) = 0
    THEN [accounts |-> accts, index |-> idx, account |-> NoAccount]
    ELSE Scan(accts, idx, Len(accts) - 1, day)

get_available_account(accts, idx, day) ==
    IF Len(accts) = 0
    THEN [accounts |-> accts, index |-> idx, account |-> NoAccount]
    ELSE Scan(accts, idx, Len(accts), day)

\* ---------------------------------------------------------- the dispatcher
\* What is known of the upstream calls once one more answered with resp.
Received(resp) ==
    [response |-> resp, all_500 |-> all_500 /\ resp.status = 500]

NoAccountsResult(url) ==
    URLResult(url, "", NoAccount, FALSE, "No available accounts")

\* After the selection r of attempt att: return "No available accounts",
\* or post the request with the selected account's token.
AfterSelect(r, att, url, hist, ncalls) ==
    /\ accounts' = r.accounts
    /\ current_account_index' = r.index
    /\ attempt' = att
    /\ long_url' = url
    /\ account' = r.account
    /\ response' = hist.response
    /\ all_500' = hist.all_500
    /\ IF r.account = NoAccount
       THEN /\ pc' = "done"
            /\ sel_count' = 0
            /\ calls' = ncalls
            /\ result' = NoAccountsResult(url)
       ELSE /\ pc' = "call"
            /\ sel_count' = r.accounts[r.account].current_count
            /\ calls' = ncalls + 1
            /\ result' = NoResult

\* Variant: a selection that finds no account is tried again as the next
\* attempt while the budget lasts.
TryAttemptRetry(accts, att, url, hist, ncalls) ==
    LET r == get_available_account(accts, current_account_index, today) IN
    IF r.account = NoAccount /\ att + 1 < max_retries
    THEN AfterSelect(get_available_account(r.accounts, r.index, today),
                     att + 1, url, hist, ncalls)
    ELSE AfterSelect(r, att, url, hist, ncalls)

\* Top of one iteration of the attempt loop.
TryAttempt(accts, att, url, hist, ncalls) ==
    AfterSelect(get_available_account(accts, current_account_index, today),
                att, url, hist, ncalls)

\* A return of shorten_url after a response.
Finish(accts, res, hist) ==
    /\ accounts' = accts
    /\ pc' = "done"
    /\ result' = res
    /\ response' = hist.response
    /\ all_500' = hist.all_500
    /\ UNCHANGED <<current_account_index, long_url, attempt, account, sel_count, calls>>

\* Variants: the loop runs one iteration more; a final 429 is reported as
\* the other statuses are.
ContinueOver(accts, hist) ==
    IF attempt + 1 <= max_retries
    THEN TryAttempt(accts, attempt + 1, long_url, hist, calls)
    ELSE Finish(accts, URLResult(long_url, "", NoAccount, FALSE, "Max retries exceeded"), hist)

ContinueAsError(accts, hist) ==
    IF attempt + 1 < max_retries
    THEN TryAttempt(accts, attempt + 1, long_url, hist, calls)
    ELSE Finish(accts, URLResult(long_url, "", accts[account].username, FALSE,
                                 ApiError(hist.response.status)), hist)

\* Variant: `continue` in a loop that does not count the attempt.
ContinueSame(accts, hist) ==
    TryAttempt(accts, attempt, long_url, hist, calls)

\* `continue`: the next iteration, or the return after the loop.
Continue(accts, hist) ==
    IF attempt + 1 < max_retries
    THEN TryAttempt(accts, attempt + 1, long_url, hist, calls)
    ELSE Finish(accts, URLResult(long_url, "", NoAccount, FALSE, "Max retries exceeded"), hist)

\* Variant: `if attempt < max_retries: continue`.
RetryOrFailAlways(accts, msg, hist) ==
    IF attempt < max_retries
    THEN Continue(accts, hist)
    ELSE Finish(accts, URLResult(long_url, "", accts[account].username, FALSE, msg), hist)

\* `if attempt < max_retries - 1: continue`, else the failure return.
RetryOrFail(accts, msg, hist) ==
    IF attempt < max_retries - 1
    THEN Continue(accts, hist)
    ELSE Finish(accts, URLResult(long_url, "", accts[account].username, FALSE, msg), hist)

\* Variant: the increment is left out.
IncrementedNot(accts, i) == accts

\* account.current_count += 1
Incremented(accts, i) ==
    [accts EXCEPT ![i].current_count = accts[i].current_count + 1]

\* shorten_url is called (one call at a time).
ShortenUrl ==
    /\ pc # "call"
    /\ \E url \in URLs :
         TryAttempt(accounts, 0, url, [response |-> NoResponse, all_500 |-> TRUE], 0)
    /\ UNCHANGED <<today, outer>>

\* status 200/201 and response.json() has a "link".
RespondSuccess ==
    /\ pc = "call"
    /\ \E status \in SuccessStatus, link \in Links :
         Finish(Incremented(accounts, account),
                URLResult(long_url, link, accounts[account].username, TRUE, ""),
                Received(Response(status, link)))
    /\ UNCHANGED <<today, outer>>

\* status 200/201 but response.json() raises ("badjson"), or the document has
\* no "link" and result['link'] raises after the increment ("nolink").
RespondMalformed ==
    /\ pc = "call"
    /\ \E status \in SuccessStatus, body \in MalformedBodies :
         IF body = "badjson"
         THEN RetryOrFail(accounts, "badjson", Received(Response(status, body)))
         ELSE RetryOrFail(Incremented(accounts, account), "'link'",
                          Received(Response(status, body)))
    /\ UNCHANGED <<today, outer>>

\* status 429.
RespondRateLimited ==
    /\ pc = "call"
    /\ Continue(accounts, Received(Response(RateLimited, "")))
    /\ UNCHANGED <<today, outer>>

\* any other status.
RespondError ==
    /\ pc = "call"
    /\ \E status \in OtherStatus :
         RetryOrFail(accounts, ApiError(status), Received(Response(status, "")))
    /\ UNCHANGED <<today, outer>>

\* requests.post raises.
RespondException ==
    /\ pc = "call"
    /\ RetryOrFail(accounts, "timeout", Received(Response(RaisedStatus, "")))
    /\ UNCHANGED <<today, outer>>

\* midnight passes.
NewDay ==
    /\ today < MaxDay
    /\ today' = today + 1
    /\ UNCHANGED <<accounts, current_account_index, pc, long_url, attempt,
                   account, result, sel_count, calls, response, all_500, outer>>

\* The accounts load_accounts_from_csv can hand over for username i: a row
\* with the defaults (current_count 0, last_reset ""), or a row carrying the
\* count of the day the process starts on, at, below or above its limit.
AccountSet(i) ==
    UNION { { Account(i, t, l, 0, NoDate) : t \in Tokens }
            \cup { Account(i, t, l, c, 1) : t \in Tokens, c \in 0..(l + 1) }
            : l \in 1..MaxLimit }

Pools ==
    UNION { { p \in [1..n -> UNION { AccountSet(i) : i \in 1..n }] :
                \A i \in 1..n : p[i].username = i } : n \in 0..MaxAccounts }

Init ==
    /\ accounts \in Pools
    /\ current_account_index = 0
    /\ today = 1
    /\ pc = "idle"
    /\ long_url = ""
    /\ attempt = 0
    /\ account = NoAccount
    /\ result = NoResult
    /\ sel_count = 0
    /\ calls = 0
    /\ response = NoResponse
    /\ all_500 = TRUE
    /\ InitOuter

Next ==
    \/ ShortenUrl
    \/ RespondSuccess
    \/ RespondMalformed
    \/ RespondRateLimited
    \/ RespondError
    \/ RespondException
    \/ NewDay

Spec == Init /\ [][Next]_vars

\* ------------------------------------------------- the pool on its own
\* _get_available_account called directly on larger pools, as a caller of
\* the method other than shorten_url does; pc is "selected" after a call.
MaxPool == 3
MaxPoolLimit == 1

PoolAccountSet(i) ==
    UNION { { Account(i, t, l, 0, NoDate) : t \in Tokens }
            \cup { Account(i, t, l, c, 1) : t \in Tokens, c \in 0..(l + 1) }
            : l \in 1..MaxPoolLimit }

LargePools ==
    UNION { { p \in [1..n -> UNION { PoolAccountSet(i) : i \in 1..n }] :
                \A i \in 1..n : p[i].username = i } : n \in 0..MaxPool }

InitPool ==
    /\ accounts \in LargePools
    /\ current_account_index = 0
    /\ today = 1
    /\ pc = "idle"
    /\ long_url = ""
    /\ attempt = 0
    /\ account = NoAccount
    /\ result = NoResult
    /\ sel_count = 0
    /\ calls = 0
    /\ response = NoResponse
    /\ all_500 = TRUE
    /\ InitOuter

\* one call of _get_available_account
Select ==
    LET r == get_available_account(accounts, current_account_index, today) IN
    /\ accounts' = r.accounts
    /\ current_account_index' = r.index
    /\ account' = r.account
    /\ sel_count' = IF r.account = NoAccount THEN 0
                    ELSE r.accounts[r.account].current_count
    /\ pc' = "selected"
    /\ UNCHANGED <<today, long_url, attempt, result, calls, response, all_500, outer>>

\* the caller records a use of the account it was given
RecordUse ==
    /\ pc = "selected"
    /\ account # NoAccount
    /\ accounts' = Incremented(accounts, account)
    /\ pc' = "idle"
    /\ UNCHANGED <<current_account_index, today, long_url, attempt, account,
                   result, sel_count, calls, response, all_500, outer>>

NextPool ==
    \/ Select
    \/ RecordUse
    \/ NewDay

SpecPool == InitPool /\ [][NextPool]_vars

TypeOK ==
    /\ pc \in {"idle", "call", "done"}
    /\ attempt \in 0..(max_retries - 1)
    /\ account \in 0..Len(accounts)
    /\ calls \in 0..max_retries
    /\ response.status \in {NoStatus, RaisedStatus, RateLimited} \cup SuccessStatus \cup OtherStatus
    /\ all_500 \in BOOLEAN

\* ================================================================ claims
N == Len(accounts)

Cursors == 0..(N - 1)

\* n consecutive calls of _get_available_account on the same day.
RECURSIVE Selections(_, _, _, _)
Selections(accts, idx, day, n) ==
    IF n = 0
    THEN [returned |-> <<>>, index |-> idx]
    ELSE LET r == get_available_account(accts, idx, day)
             rest == Selections(r.accounts, r.index, day, n - 1)
         IN  [returned |-> <<r.account>> \o rest.returned, index |-> rest.index]

HasQuota(a) == a.api_token # "" /\ a.current_count < a.daily_limit

ExhaustedToday(a) == a.current_count = a.daily_limit /\ a.last_reset = today

\* C1 - round robin: when every account of the pool has a token and a count
\* below its limit, N consecutive selections from any cursor c return the
\* accounts c, c+1, ..., c+N-1 (mod N), each once, and leave the cursor at c.
C1_RoundRobin ==
    (N > 0 /\ \A i \in 1..N : HasQuota(accounts[i])) =>
        \A c \in Cursors :
            LET s == Selections(accounts, c, today, N) IN
            /\ s.returned = [k \in 1..N |-> ((c + k - 1) % N) + 1]
            /\ s.index = c

\* a call is in flight on a pool of at least two usable accounts whose cursor
\* has moved off the start
C1_Witness ==
    /\ N >= 2
    /\ \A i \in 1..N : HasQuota(accounts[i])
    /\ pc = "call"
    /\ current_account_index # 0

\* C2 - quota exhaustion: an account whose count equals its limit and whose
\* last reset is today is returned by no selection, from any cursor; the
\* account a call is posted with, and the account an outcome names, had a
\* count below its limit when it was selected.
C2_QuotaExhaustion ==
    /\ \A i \in 1..N : ExhaustedToday(accounts[i]) =>
          \A c \in Cursors : get_available_account(accounts, c, today).account # i
    /\ pc = "call" => sel_count < accounts[account].daily_limit
    /\ (pc = "done" /\ result.account_used # NoAccount) =>
          /\ account # NoAccount
          /\ result.account_used = accounts[account].username
          /\ sel_count < accounts[account].daily_limit

\* a success has used up an account with a token while another account of
\* the pool was selected for the call now in flight
C2_Witness ==
    /\ N >= 2
    /\ pc = "call"
    /\ \E i \in 1..N : /\ ExhaustedToday(accounts[i])
                       /\ accounts[i].api_token # ""
                       /\ i # account
                       /\ current_account_index = i - 1

WithinCap == \A i \in 1..N :
    0 <= accounts[i].current_count /\ accounts[i].current_count <= accounts[i].daily_limit

\* C3 - daily cap: once every count is between 0 and its limit, it stays so
\* through every step of shorten_url, every upstream response and every
\* change of date.
C3_DailyCap == [][WithinCap => WithinCap']_vars

\* on the second day a success has brought an account to its limit
C3_Witness ==
    /\ today > 1
    /\ pc = "done"
    /\ result.success
    /\ accounts[account].current_count = accounts[account].daily_limit
    /\ accounts[account].last_reset = today
    /\ WithinCap

\* The step taken receives an upstream response (a call was in flight and
\* the step is not the change of date).
Receives == pc = "call" /\ today' = today

\* C4 - success path: a 200/201 response with a link ends the call at once:
\* no selection (cursor, selected account, attempt and call count stay), the
\* outcome is the success record with that link and the selected account's
\* username, and that account's count is one more than when it was selected,
\* the other accounts keeping theirs.
C4_SuccessPath ==
    [][(Receives /\ response'.status \in SuccessStatus /\ response'.body \in Links) =>
         /\ pc' = "done"
         /\ result' = URLResult(long_url, response'.body, accounts[account].username,
                                TRUE, "")
         /\ accounts' = [accounts EXCEPT ![account].current_count = sel_count + 1]
         /\ UNCHANGED <<current_account_index, account, attempt, calls, long_url>>
      ]_vars

\* a third attempt succeeded with status 201 on an account that had been
\* used before
C4_Witness ==
    /\ pc = "done"
    /\ result.success
    /\ response.status = 201
    /\ attempt = 2
    /\ sel_count > 0
    /\ accounts[account].current_count = sel_count + 1

\* C5 - the count grows only with a success: in every step, an account whose
\* current_count grows is the account named by a success outcome returned in
\* that step.
C5_IncrementOnlyOnSuccess ==
    [][\A i \in 1..N :
         accounts'[i].current_count > accounts[i].current_count =>
            /\ pc' = "done"
            /\ result'.success
            /\ result'.account_used = accounts[i].username
      ]_vars

\* C6 - attempt budget: one shorten_url makes at most 3 upstream calls; when
\* every selection found an account and every response was a 500, it has made
\* exactly 3 when it returns, and returns the failure "API Error: 500" naming
\* the account of the third attempt.
C6_AttemptBudget ==
    /\ calls <= 3
    /\ (pc = "done" /\ account # NoAccount /\ all_500) =>
          /\ calls = 3
          /\ response.status = 500
          /\ result = URLResult(long_url, "", accounts[account].username, FALSE,
                                "API Error: 500")

\* three 500s on a pool of two accounts: the third attempt is back on the
\* account of the first
C6_Witness ==
    /\ pc = "done"
    /\ all_500
    /\ calls = 3
    /\ N = 2
    /\ account = 1
    /\ current_account_index = 1

\* The third upstream call of this shorten_url has been answered.
ThirdAnswered == pc = "done" /\ calls = 3

\* C7 as stated - a 429 on the third attempt is reported as any other
\* non-2xx status is: the failure with the upstream-error message for the
\* status and the account last tried.
C7_Final429AsError ==
    (ThirdAnswered /\ response.status = RateLimited) =>
        result = URLResult(long_url, "", accounts[account].username, FALSE,
                           ApiError(RateLimited))

\* C7 as amended - a 429 on the third attempt ends the loop and is reported
\* as "Max retries exceeded" with no account, whereas another non-2xx status
\* on the third attempt is reported with its status and the account last
\* tried.
C7_Final429MaxRetries ==
    /\ (ThirdAnswered /\ response.status = RateLimited) =>
          result = URLResult(long_url, "", NoAccount, FALSE, "Max retries exceeded")
    /\ (ThirdAnswered /\ response.status \in OtherStatus) =>
          result = URLResult(long_url, "", accounts[account].username, FALSE,
                             ApiError(response.status))

\* the third attempt was answered 429
C7_Witness ==
    /\ ThirdAnswered
    /\ response.status = RateLimited
    /\ attempt = 2
    /\ account # NoAccount

\* C8 - no account, no retry: whenever the latest selection of a shorten_url
\* found no account, the call has returned the failure "No available
\* accounts" with no link and no account, at the attempt of that selection
\* and with one upstream call for each earlier attempt only; no other return
\* carries that message.
C8_NoAccountNotRetried ==
    /\ (pc # "idle" /\ account = NoAccount) =>
          /\ pc = "done"
          /\ result = URLResult(long_url, "", NoAccount, FALSE, "No available accounts")
          /\ calls = attempt
    /\ (pc = "done" /\ result.error_message = "No available accounts") =>
          account = NoAccount

\* the pool ran out at the third attempt, after two upstream calls
C8_Witness ==
    /\ pc = "done"
    /\ account = NoAccount
    /\ attempt = 2
    /\ calls = 2
    /\ N > 0

\* C9 - empty pool: on a pool without accounts a selection returns no account
\* and leaves pool and cursor as they are, and shorten_url returns "No
\* available accounts" at its first attempt without an upstream call.
C9_EmptyPool ==
    N = 0 =>
        /\ get_available_account(accounts, current_account_index, today) =
              [accounts |-> accounts, index |-> current_account_index,
               account |-> NoAccount]
        /\ current_account_index = 0
        /\ pc # "call"
        /\ pc = "done" =>
              /\ result = URLResult(long_url, "", NoAccount, FALSE, "No available accounts")
              /\ calls = 0
              /\ attempt = 0
              /\ response = NoResponse

\* shorten_url has returned on the empty pool
C9_Witness ==
    /\ N = 0
    /\ pc = "done"
    /\ long_url \in URLs

\* The accounts a selection from cursor c examines when it returns ret.
Examined(c, ret) ==
    IF ret = NoAccount
    THEN 1..N
    ELSE { ((c + k) % N) + 1 : k \in 0..((ret - 1 - c) % N) }

\* C10 - lazy reset: a selection, from any cursor, sets current_count to 0
\* and last_reset to today for the accounts it examines whose last_reset is
\* not today, returned or not and with or without token, and leaves every
\* other account as it is.
C10_LazyReset ==
    \A c \in Cursors :
        LET r == get_available_account(accounts, c, today) IN
        /\ Len(r.accounts) = N
        /\ \A i \in 1..N :
              r.accounts[i] =
                 IF i \in Examined(c, r.account) /\ accounts[i].last_reset # today
                 THEN [accounts[i] EXCEPT !.current_count = 0, !.last_reset = today]
                 ELSE accounts[i]

\* on the second day a selection has passed over a tokenless account, which
\* carried a count from the day before, and reset it
C10_Witness ==
    /\ today = 2
    /\ N = 2
    /\ pc = "call"
    /\ account = 2
    /\ accounts[1].api_token = ""
    /\ accounts[1].last_reset = 2
    /\ accounts[1].current_count = 0

\* An account a selection made on day would accept: it has a token and, once
\* a stale count is reset, a count below its limit.
EligibleOn(a, day) ==
    /\ a.api_token # ""
    /\ (IF a.last_reset # day THEN 0 ELSE a.current_count) < a.daily_limit

EligibleSet == { i \in 1..N : EligibleOn(accounts[i], today) }

\* C11 - two selections in a row, from any cursor, with no use recorded and
\* no change of date in between, that both return an account return two
\* different accounts whenever more than one account of the pool is eligible.
C11_BackToBackDiffer ==
    \A c \in Cursors :
        LET r1 == get_available_account(accounts, c, today)
            r2 == get_available_account(r1.accounts, r1.index, today)
        IN  (Cardinality(EligibleSet) > 1
             /\ r1.account # NoAccount /\ r2.account # NoAccount) =>
                r1.account # r2.account

\* a selection has returned account 1 of a pool of three whose account 2 is
\* not eligible and whose account 3 is
C11_Witness ==
    /\ N = 3
    /\ pc = "selected"
    /\ account = 1
    /\ EligibleSet = {1, 3}
    /\ get_available_account(accounts, current_account_index, today).account = 3

Tokenless == { i \in 1..N : accounts[i].api_token = "" }

\* C12 - an account without token is unusable for good: no selection, from
\* any cursor, returns it; no upstream call is posted with it; no outcome
\* names it; and no step increases its current_count.
C12_TokenlessUnusable ==
    /\ [](/\ \A c \in Cursors :
                get_available_account(accounts, c, today).account \notin Tokenless
          /\ pc = "call" => account \notin Tokenless
          /\ pc = "done" =>
                \A i \in Tokenless : result.account_used # accounts[i].username)
    /\ [][\A i \in Tokenless :
            /\ accounts'[i].api_token = ""
            /\ accounts'[i].current_count <= accounts[i].current_count]_vars

\* a call has succeeded on account 2 after the scan passed over account 1,
\* which has no token and a count of today below its limit
C12_Witness ==
    /\ N = 2
    /\ accounts[1].api_token = ""
    /\ accounts[1].last_reset = today
    /\ accounts[1].current_count < accounts[1].daily_limit
    /\ pc = "done"
    /\ result.success
    /\ account = 2
    /\ current_account_index = 0

\* ------------------------------------------------------------ termination
\* The upstream call in flight is answered: a response arrives or
\* requests.post raises, at the latest when its timeout of 15 expires.
Respond ==
    \/ RespondSuccess
    \/ RespondMalformed
    \/ RespondRateLimited
    \/ RespondError
    \/ RespondException

LivePools ==
    UNION { { p \in [1..n -> UNION { PoolAccountSet(i) : i \in 1..n }] :
                \A i \in 1..n : p[i].username = i } : n \in 0..MaxAccounts }

InitLive ==
    /\ accounts \in LivePools
    /\ current_account_index = 0
    /\ today = 1
    /\ pc = "idle"
    /\ long_url = ""
    /\ attempt = 0
    /\ account = NoAccount
    /\ result = NoResult
    /\ sel_count = 0
    /\ calls = 0
    /\ response = NoResponse
    /\ all_500 = TRUE
    /\ InitOuter

SpecLive == InitLive /\ [][Next]_vars /\ WF_vars(Respond)

ErrorMessages ==
    {"No available accounts", "Max retries exceeded", "timeout", "badjson", "'link'"}
    \cup { ApiError(st) : st \in OtherStatus }

\* The record shorten_url has returned is a well-formed outcome.
OutcomeShape ==
    /\ result.original_url = long_url
    /\ IF result.success
       THEN /\ result.short_url \in Links
            /\ result.error_message = ""
            /\ result.account_used # NoAccount
       ELSE /\ result.short_url = ""
            /\ result.error_message \in ErrorMessages

\* C13 - absorption and termination: whatever the upstream answers, each
\* answer either makes shorten_url return or starts the next of its at most
\* 3 attempts, so a call in flight always comes to its return; there is no
\* outcome before the return, and the outcome returned is a failure with an
\* error message and no link, or a success with a link and no error message.
C13_AbsorbedAndTerminates ==
    /\ [](pc = "call" => result = NoResult)
    /\ [](pc = "done" => OutcomeShape)
    /\ [][Receives =>
            \/ pc' = "done"
            \/ pc' = "call" /\ attempt' = attempt + 1 /\ attempt' < max_retries]_vars
    /\ (pc = "call") ~> (pc = "done")

\* a call has returned the failure of its third attempt, a timeout
C13_Witness ==
    /\ pc = "done"
    /\ calls = 3
    /\ response.status = RaisedStatus
    /\ result = URLResult(long_url, "", accounts[account].username, FALSE, "timeout")

\* The account under cursor c moved k places on, cyclically.
At(c, k) == ((c + k) % N) + 1

\* How far from cursor c the first eligible account is.
FirstEligible(c) ==
    CHOOSE k \in 0..(N - 1) :
        /\ EligibleOn(accounts[At(c, k)], today)
        /\ \A j \in 0..(k - 1) : ~EligibleOn(accounts[At(c, j)], today)

\* C17 - reference definition: from any cursor c of a non-empty pool the
\* selection returns the first account in the order c, c+1, ... (mod N) that
\* is eligible after the lazy reset and sets the cursor just past it, or
\* returns none when no account is eligible; the cursor is always an index
\* of the pool; no step changes the pool's length or an account's username,
\* api_token or daily_limit.
C17_ReferenceSelection ==
    /\ [](\A c \in Cursors :
            LET r == get_available_account(accounts, c, today) IN
            IF EligibleSet = {}
            THEN r.account = NoAccount
            ELSE /\ r.account = At(c, FirstEligible(c))
                 /\ r.index = (c + FirstEligible(c) + 1) % N)
    /\ [](IF N = 0 THEN current_account_index = 0 ELSE current_account_index \in Cursors)
    /\ [][/\ Len(accounts') = N
          /\ \A i \in 1..N :
                /\ accounts'[i].username = accounts[i].username
                /\ accounts'[i].api_token = accounts[i].api_token
                /\ accounts'[i].daily_limit = accounts[i].daily_limit]_vars

\* on the second day a selection on a pool of three has returned account 3
\* after accounts 1 and 2, examined that day, were found not eligible
C17_Witness ==
    /\ N = 3
    /\ today = 2
    /\ pc = "selected"
    /\ account = 3
    /\ current_account_index = 0
    /\ \A i \in 1..N : accounts[i].last_reset = today
    /\ EligibleSet \cap {1, 2} = {}

\* C18 - a selection that returns none on a non-empty pool, from any cursor,
\* has examined every account (each carries today's date afterwards, its
\* count reset if it was stale) and leaves the cursor where it was; the
\* selection that follows it on the same day returns none too and changes
\* nothing.
C18_NoneLeavesCursor ==
    \A c \in Cursors :
        LET r == get_available_account(accounts, c, today)
            r2 == get_available_account(r.accounts, r.index, today)
        IN  r.account = NoAccount =>
               /\ r.index = c
               /\ \A i \in 1..N :
                     r.accounts[i] =
                        IF accounts[i].last_reset # today
                        THEN [accounts[i] EXCEPT !.current_count = 0,
                                                 !.last_reset = today]
                        ELSE accounts[i]
               /\ r2 = r

\* a selection on a pool of three has found no account and left the cursor
\* on 2, where the use of account 2 had left it
C18_Witness ==
    /\ N = 3
    /\ pc = "selected"
    /\ account = NoAccount
    /\ current_account_index = 2
    /\ accounts[2].api_token # ""
    /\ accounts[2].current_count = accounts[2].daily_limit

MaxRetriesExceeded == result.error_message = "Max retries exceeded"

\* C19 - shorten_url returns "Max retries exceeded" exactly when its third
\* upstream call was answered 429 (three attempts each selected an account
\* and posted), and then names no account; a third call answered otherwise
\* without success returns the failure naming the account of that attempt.
C19_MaxRetriesIff429 ==
    pc = "done" =>
        /\ MaxRetriesExceeded <=>
              (calls = 3 /\ attempt = 2 /\ response.status = RateLimited)
        /\ MaxRetriesExceeded =>
              /\ result = URLResult(long_url, "", NoAccount, FALSE, "Max retries exceeded")
              /\ account # NoAccount
        /\ (calls = 3 /\ ~result.success /\ response.status # RateLimited) =>
              /\ result.account_used = accounts[account].username
              /\ result.error_message \in
                    {"timeout", "badjson", "'link'"} \cup { ApiError(st) : st \in OtherStatus }

\* on a pool of two the third answer was a 429: the call returns "Max
\* retries exceeded" and names no account although its last attempt was on
\* account 1
C19_Witness ==
    /\ pc = "done"
    /\ MaxRetriesExceeded
    /\ result.account_used = NoAccount
    /\ N = 2
    /\ account = 1
    /\ ~all_500

\* ------------------------------------------------------- pool capacity
\* One calendar day of shorten_url calls, one at a time, on a pool whose
\* counts start at 0, with an upstream that answers every call 201 with a
\* link; results is the sequence of the outcomes returned.
ExtraCalls == 2

RECURSIVE SumLimits(_, _)
SumLimits(accts, n) ==
    IF n = 0 THEN 0
    ELSE SumLimits(accts, n - 1)
         + (IF accts[n].api_token # "" THEN accts[n].daily_limit ELSE 0)

Capacity == SumLimits(accounts, N)

InitCapacity ==
    /\ accounts \in { p \in Pools : \A i \in 1..Len(p) : p[i].current_count = 0 }
    /\ current_account_index = 0
    /\ today = 1
    /\ pc = "idle"
    /\ long_url = ""
    /\ attempt = 0
    /\ account = NoAccount
    /\ result = NoResult
    /\ sel_count = 0
    /\ calls = 0
    /\ response = NoResponse
    /\ all_500 = TRUE
    /\ InitOuter

\* the next shorten_url of the day
CallShortenUrl ==
    /\ pc # "call"
    /\ Len(results) < Capacity + ExtraCalls
    /\ \E url \in URLs :
         TryAttempt(accounts, 0, url, [response |-> NoResponse, all_500 |-> TRUE], 0)
    /\ results' = IF pc' = "done" THEN Append(results, result') ELSE results
    /\ UNCHANGED <<today, route, urls, reply, second>>

\* the upstream answers 201 with a link
Answer201 ==
    /\ pc = "call"
    /\ \E link \in Links :
         Finish(Incremented(accounts, account),
                URLResult(long_url, link, accounts[account].username, TRUE, ""),
                Received(Response(201, link)))
    /\ results' = Append(results, result')
    /\ UNCHANGED <<today, route, urls, reply, second>>

NextCapacity ==
    \/ CallShortenUrl
    \/ Answer201

SpecCapacity == InitCapacity /\ [][NextCapacity]_vars

\* C20 - pool capacity: the k-th call of the day succeeds exactly when k is
\* at most the sum of daily_limit over the accounts with a token; every
\* other call returns "No available accounts" without an upstream call, and
\* it does so only when every account with a token is at its limit.
C20_PoolCapacity ==
    /\ \A k \in 1..Len(results) :
          /\ results[k].success <=> k <= Capacity
          /\ ~results[k].success =>
                results[k] = URLResult(results[k].original_url, "", NoAccount, FALSE,
                                       "No available accounts")
    /\ (pc = "done" /\ ~result.success) =>
          /\ calls = 0
          /\ \A i \in 1..N : accounts[i].api_token # "" =>
                accounts[i].current_count = accounts[i].daily_limit

\* two accounts with a token and different limits (capacity 3) and a call
\* beyond it: three successes, then the failure
C20_Witness ==
    /\ N = 2
    /\ Capacity = 3
    /\ Len(results) = 4
    /\ results[3].success
    /\ ~results[4].success
    /\ pc = "done"

\* ------------------------------------------------------ the route handlers
\* shorten and shorten_bulk in front of the dispatcher.  A URL is a sequence
\* of characters; urls holds the URLs of the request as received, results
\* the dictionaries built so far, reply what the handler returns.
MaxPad == 1
MaxBulk == 3

Whitespace == {" ", "\t"}

Http == <<"h", "t", "t", "p", ":", "/", "/">>

Https == <<"h", "t", "t", "p", "s", ":", "/", "/">>

\* str.strip()
RECURSIVE lstrip(_)
lstrip(str) ==
    IF str # <<>> /\ Head(str) \in Whitespace THEN lstrip(Tail(str)) ELSE str

RECURSIVE rstrip(_)
rstrip(str) ==
    IF str # <<>> /\ str[Len(str)] \in Whitespace
    THEN rstrip(SubSeq(str, 1, Len(str) - 1))
    ELSE str

strip(str) == rstrip(lstrip(str))

\* str.startswith(prefix)
startswith(str, prefix) ==
    Len(str) >= Len(prefix) /\ SubSeq(str, 1, Len(prefix)) = prefix

\* Variant: the scheme is looked for in the URL as received, before the strip.
normalize_unstripped(raw) ==
    IF startswith(raw, Http) \/ startswith(raw, Https)
    THEN strip(raw)
    ELSE Https \o strip(raw)

\* url = url.strip(); if not url.startswith(('http://', 'https://')):
\* url = 'https://' + url
normalize(raw) ==
    LET url == strip(raw) IN
    IF startswith(url, Http) \/ startswith(url, Https) THEN url ELSE Https \o url

\* The URLs a request can carry: a head that is, or falls short of, a
\* scheme, then a rest, with whitespace around.
RECURSIVE Pads(_)
Pads(n) ==
    IF n = 0 THEN {<<>>}
    ELSE Pads(n - 1) \cup { <<w>> \o pad : w \in Whitespace, pad \in Pads(n - 1) }

Heads == {<<>>, Http, Https, <<"h", "t", "t", "p", ":", "/">>,
          <<"H", "T", "T", "P", ":", "/", "/">>}

Rests == {<<>>, <<"a">>, <<"a", " ", "b">>}

RawURLs ==
    { lead \o head \o rest \o trail :
        lead \in Pads(MaxPad), head \in Heads, rest \in Rests, trail \in Pads(MaxPad) }

\* the URLs of the longer lists
BulkURLs == {<<"a">>, <<" ">> \o Http \o <<"b">>}

RECURSIVE Lists(_, _)
Lists(set, n) ==
    IF n = 0 THEN {<<>>}
    ELSE { <<x>> \o l : x \in set, l \in Lists(set, n - 1) }

Requests ==
    {<<>>} \cup { <<raw>> : raw \in RawURLs }
    \cup UNION { Lists(BulkURLs, n) : n \in 2..MaxBulk }

\* pools of no or one account
RoutePools == {<<>>} \cup { <<a>> : a \in PoolAccountSet(1) }

\* the dictionary the handlers build from a URLResult
ResultDict(res) ==
    [success |-> res.success, original_url |-> res.original_url,
     short_url |-> res.short_url, account_used |-> res.account_used,
     error |-> IF ~res.success THEN res.error_message ELSE "None"]

ErrorReply(status, msg) ==
    [status |-> status, body |-> [success |-> FALSE, error |-> msg]]

ShortenReply(res) == [status |-> 200, body |-> ResultDict(res)]

RECURSIVE Successful(_)
Successful(dicts) ==
    IF dicts = <<>> THEN 0
    ELSE (IF Head(dicts).success THEN 1 ELSE 0) + Successful(Tail(dicts))

BulkReply(dicts) ==
    [status |-> 200,
     body |-> [success |-> TRUE, total |-> Len(dicts),
               successful |-> Successful(dicts),
               failed |-> Len(dicts) - Successful(dicts),
               results |-> dicts]]

\* Variant: the loop over the URLs ends at the first failure.
BulkDoneAtFailure(list, dicts) ==
    Len(dicts) = Len(list) \/ (dicts # <<>> /\ ~dicts[Len(dicts)].success)

\* the for loop of shorten_bulk has consumed the list
BulkDone(list, dicts) == Len(dicts) = Len(list)

\* What a handler does once shorten_url has returned res: shorten replies;
\* shorten_bulk appends the dictionary to those it has so far and replies
\* after the last URL.
AfterShortenUrl(handler, res, list, sofar) ==
    IF handler = "shorten"
    THEN /\ reply' = ShortenReply(res)
         /\ route' = "none"
         /\ results' = <<>>
    ELSE /\ results' = Append(sofar, ResultDict(res))
         /\ IF BulkDone(list, results')
            THEN reply' = BulkReply(results') /\ route' = "none"
            ELSE reply' = NoReply /\ route' = handler

\* A handler normalizes the next URL of the list and calls
\* api_manager.shorten_url(url).
CallFromRoute(handler, list, sofar) ==
    /\ TryAttempt(accounts, 0, normalize(list[Len(sofar) + 1]),
                  [response |-> NoResponse, all_500 |-> TRUE], 0)
    /\ IF pc' = "done"
       THEN AfterShortenUrl(handler, result', list, sofar)
       ELSE reply' = NoReply /\ route' = handler /\ results' = sofar

dispatcher == <<accounts, current_account_index, pc, long_url, attempt, account,
                result, sel_count, calls, response, all_500>>

\* no handler is running and none has replied: one request is followed from
\* its arrival to its reply
Awaiting == route = "none" /\ reply = NoReply

\* POST /api/shorten with {"url": raw}
shorten ==
    /\ Awaiting
    /\ \E raw \in RawURLs :
         /\ urls' = <<raw>>
         /\ IF N = 0
            THEN /\ reply' = ErrorReply(500, "No accounts configured")
                 /\ results' = <<>>
                 /\ UNCHANGED <<dispatcher, route>>
            ELSE IF strip(raw) = <<>>
            THEN /\ reply' = ErrorReply(400, "URL is required")
                 /\ results' = <<>>
                 /\ UNCHANGED <<dispatcher, route>>
            ELSE CallFromRoute("shorten", <<raw>>, <<>>)
    /\ UNCHANGED <<today, second>>

\* POST /api/shorten-bulk with {"urls": list}, up to its first shorten_url
shorten_bulk ==
    /\ Awaiting
    /\ \E list \in Requests :
         /\ urls' = list
         /\ IF N = 0
            THEN /\ reply' = ErrorReply(500, "No accounts configured")
                 /\ results' = <<>>
                 /\ UNCHANGED <<dispatcher, route>>
            ELSE IF list = <<>>
            THEN /\ reply' = ErrorReply(400, "URLs required")
                 /\ results' = <<>>
                 /\ UNCHANGED <<dispatcher, route>>
            ELSE CallFromRoute("shorten_bulk", list, <<>>)
    /\ UNCHANGED <<today, second>>

\* the next round of the for loop of shorten_bulk
NextURL ==
    /\ route = "shorten_bulk"
    /\ pc # "call"
    /\ CallFromRoute(route, urls, results)
    /\ UNCHANGED <<today, urls, second>>

\* The upstream answers the call a handler is waiting for; when that ends
\* shorten_url the handler goes on.
ReturnToRoute ==
    /\ IF pc' = "done"
       THEN AfterShortenUrl(route, result', urls, results)
       ELSE UNCHANGED <<route, results, reply>>
    /\ UNCHANGED <<today, urls, second>>

RouteSuccess ==
    /\ route # "none"
    /\ pc = "call"
    /\ Finish(Incremented(accounts, account),
              URLResult(long_url, "https://bit.ly/abc",
                        accounts[account].username, TRUE, ""),
              Received(Response(201, "https://bit.ly/abc")))
    /\ ReturnToRoute

RouteError ==
    /\ route # "none"
    /\ pc = "call"
    /\ RetryOrFail(accounts, ApiError(500), Received(Response(500, "")))
    /\ ReturnToRoute

RouteException ==
    /\ route # "none"
    /\ pc = "call"
    /\ RetryOrFail(accounts, "timeout", Received(Response(RaisedStatus, "")))
    /\ ReturnToRoute

InitRoutes ==
    /\ accounts \in RoutePools
    /\ current_account_index = 0
    /\ today = 1
    /\ pc = "idle"
    /\ long_url = <<>>
    /\ attempt = 0
    /\ account = NoAccount
    /\ result = NoResult
    /\ sel_count = 0
    /\ calls = 0
    /\ response = NoResponse
    /\ all_500 = TRUE
    /\ InitOuter

NextRoutes ==
    \/ shorten
    \/ shorten_bulk
    \/ NextURL
    \/ RouteSuccess
    \/ RouteError
    \/ RouteException

SpecRoutes == InitRoutes /\ [][NextRoutes]_vars

\* the reply of shorten_bulk to a list it went through
IsBulkReply == reply.status = 200 /\ "total" \in DOMAIN reply.body

\* the reply of shorten after a call of shorten_url
IsShortenReply == reply.status = 200 /\ "original_url" \in DOMAIN reply.body

\* C14: shorten_bulk goes through a non-empty list in input order, one
\* shorten_url per URL: the call in flight is for the URL after those that
\* have a result, the i-th result is that of the i-th URL, and the reply comes
\* only when every URL has its result, failed ones included, with total the
\* number of URLs, successful the number of results with success true and
\* failed the rest.
C14_BulkAggregation ==
    /\ route = "shorten_bulk" =>
         /\ Len(results) < Len(urls)
         /\ \A k \in 1..Len(results) :
              results[k].original_url = normalize(urls[k])
         /\ long_url = normalize(urls[IF pc = "call" THEN Len(results) + 1
                                      ELSE Len(results)])
    /\ IsBulkReply =>
         /\ urls # <<>>
         /\ reply.body.total = Len(urls)
         /\ Len(reply.body.results) = Len(urls)
         /\ \A k \in 1..Len(urls) :
              reply.body.results[k].original_url = normalize(urls[k])
         /\ reply.body.successful =
              Cardinality({ k \in 1..Len(urls) : reply.body.results[k].success })
         /\ reply.body.failed = reply.body.total - reply.body.successful
         /\ reply.body.success

\* A list of three went through although its first URL failed: the second
\* one succeeded after it.
C14_Witness ==
    /\ IsBulkReply
    /\ Len(urls) >= 3
    /\ ~reply.body.results[1].success
    /\ reply.body.results[2].success
    /\ reply.body.successful = 1
    /\ reply.body.failed = Len(urls) - 1

\* u is raw without the whitespace around it, found without strip
IsTrimOf(u, raw) ==
    \E i \in 1..(Len(raw) + 1) :
      \E j \in (i - 1)..Len(raw) :
        /\ u = SubSeq(raw, i, j)
        /\ \A k \in 1..(i - 1) : raw[k] \in Whitespace
        /\ \A k \in (j + 1)..Len(raw) : raw[k] \in Whitespace
        /\ u = <<>> \/ (u[1] \notin Whitespace /\ u[Len(u)] \notin Whitespace)

HasScheme(u) ==
    \E scheme \in {Http, Https} :
      /\ Len(u) >= Len(scheme)
      /\ \A k \in 1..Len(scheme) : u[k] = scheme[k]

\* url is what raw has to become
IsNormalOf(url, raw) ==
    \E i \in 1..(Len(raw) + 1) :
      \E j \in (i - 1)..Len(raw) :
        LET u == SubSeq(raw, i, j) IN
        /\ IsTrimOf(u, raw)
        /\ url = IF HasScheme(u) THEN u ELSE Https \o u

\* C16: in shorten and in shorten_bulk alike the URL given to shorten_url,
\* which is the one sent upstream and reported as original_url, is the
\* trimmed input as it is when that starts with http:// or https://, and the
\* trimmed input after https:// otherwise; normalizing it again changes
\* nothing.
C16_Normalization ==
    /\ (route # "none" /\ pc = "call") =>
         IsNormalOf(long_url, urls[Len(results) + 1])
    /\ \A k \in 1..Len(results) : IsNormalOf(results[k].original_url, urls[k])
    /\ IsShortenReply => IsNormalOf(reply.body.original_url, urls[1])
    /\ IsBulkReply =>
         \A k \in 1..Len(urls) :
           IsNormalOf(reply.body.results[k].original_url, urls[k])
    /\ \A k \in 1..Len(urls) : normalize(normalize(urls[k])) = normalize(urls[k])

\* " a\t" went upstream from shorten as "https://a" and came back reported so.
C16_Witness ==
    /\ IsShortenReply
    /\ urls = << <<" ", "a", "\t">> >>
    /\ reply.body.original_url = Https \o <<"a">>
    /\ reply.body.success

\* ------------------------------------------------------ concurrent requests
\* app.run serves each request on a thread of its own and nothing guards
\* api_manager.  A second call of shorten_url runs beside the first, its
\* locals in `second`; the two share accounts and current_account_index.
\* Threads switch between a selection, an upstream answer with what follows
\* it, and the next selection (requests.post blocks in between).

\* The second call's iteration of the attempt loop from its top.
SecondTryAttempt(att) ==
    LET r == get_available_account(accounts, current_account_index, today) IN
    /\ accounts' = r.accounts
    /\ current_account_index' = r.index
    /\ second' = [pc |-> IF r.account = NoAccount THEN "done" ELSE "call",
                  attempt |-> att, account |-> r.account, success |-> FALSE]

locals == <<pc, long_url, attempt, account, result, sel_count, calls,
            response, all_500>>

\* shorten_url is called on the second thread.
SecondShortenUrl ==
    /\ second.pc # "call"
    /\ SecondTryAttempt(0)
    /\ UNCHANGED <<today, locals, route, urls, results, reply>>

\* its upstream call is answered 200/201 with a "link"
SecondRespondSuccess ==
    /\ second.pc = "call"
    /\ accounts' = Incremented(accounts, second.account)
    /\ second' = [second EXCEPT !.pc = "done", !.success = TRUE]
    /\ UNCHANGED <<current_account_index, today, locals, route, urls, results, reply>>

\* its upstream call is answered 429 or any other status, or raises
SecondRespondFailure ==
    /\ second.pc = "call"
    /\ IF second.attempt + 1 < max_retries
       THEN SecondTryAttempt(second.attempt + 1)
       ELSE /\ second' = [second EXCEPT !.pc = "done"]
            /\ UNCHANGED <<accounts, current_account_index>>
    /\ UNCHANGED <<today, locals, route, urls, results, reply>>

NextConc ==
    \/ Next
    \/ SecondShortenUrl
    \/ SecondRespondSuccess
    \/ SecondRespondFailure

SpecConc == InitLive /\ [][NextConc]_vars

\* C15: with calls of shorten_url in flight at the same time, no step takes
\* the current_count of an account that is within its daily_limit above it.
C15_ConcurrentDailyCap ==
    [][\A i \in 1..N :
         accounts[i].current_count <= accounts[i].daily_limit
           => accounts'[i].current_count <= accounts'[i].daily_limit]_vars

====
